---- MODULE Spec2Model ----
(***************************************************************************)
(* Points ledger of the loyalty programme backend (Express handlers over   *)
(* a relational store).  Each request handler is one action where          *)
(* handlers run one at a time; the race specification splits the transfer  *)
(* and purchase handlers at their store calls.                             *)
(*                                                                         *)
(* Encodings                                                               *)
(*   - a nullable column holds a set: {} is NULL, {v} is the value v;      *)
(*   - a JSON number that a handler truncates (amount) is given in halves: *)
(*     3 is 1.5, 60 is 30, -3 is -1.5;                                     *)
(*   - money (spent, minSpending) is in cents; a promotion rate is in      *)
(*     hundredths (5 is 0.05);                                             *)
(*   - a utorid is modelled by the user's id; UnknownUser names no row.    *)
(***************************************************************************)
EXTENDS Integers, Sequences, FiniteSets, TLC

VARIABLES
    users,      \* User rows: id -> [role, points, verified, suspicious,
                \* passwordHash, lastLogin, resetToken (the user's ResetToken row),
                \* name]
    txs,        \* Transaction rows (a set of records, keyed by id)
    nextTxId,   \* AUTOINCREMENT counter of Transaction
    promos,     \* Promotion rows: id -> record
    usage,      \* UserPromotionUsage rows, in insertion order
    txPromos,   \* TransactionPromotion rows <<transactionId, promotionId>>
    events,     \* Event rows in id order, each with its guests and organizers
    now,        \* the clock read by now()
    inflight,   \* handlers suspended at a store call, with what they have read
    res         \* the last request and its response (observation only)

vars == <<users, txs, nextTxId, promos, usage, txPromos, events, now, inflight, res>>

db == <<users, txs, nextTxId, promos, usage, txPromos, events>>

----------------------------------------------------------------------------
(* Bounds of the model *)

MaxTx == 3

MaxPurchases == 2

MaxEvents == 1

MaxTime == 1

MaxHandlers == 2

MaxUsers == 4

MaxRaceTx == 5
\* largest absolute balance followed when a delta may be applied repeatedly
MaxDrift == 300

----------------------------------------------------------------------------
(* Values *)

Null == {}

Some(v) == {v}

Val(o) == CHOOSE v \in o : TRUE

\* the User rows there are
Users == DOMAIN users

\* the users of the seeded database
FirstUsers == 1 .. 3

\* bcrypt.hash and bcrypt.compare on passwords 1, 2, ...
Hash(password) == password + 10

Compare(password, passwordHash) == Hash(password) = passwordHash

UnknownUser == 9

UnknownPromo == 7

PromoIds == 1 .. 3

ORDER == [regular |-> 0, cashier |-> 1, manager |-> 2, superuser |-> 3]

\* Math.trunc of a number given in halves
Trunc(h) == IF h >= 0 THEN h \div 2 ELSE -((-h) \div 2)

\* Math.round of the rational n / d (d > 0): halves go up
Round(n, d) == (2 * n + d) \div (2 * d)

basePoints_Floor(spent) == spent \div 25

\* basePoints(spent) = Math.round(spent / 0.25), spent in cents
basePoints(spent) == Round(spent, 25)

TxById(id) == CHOOSE t \in txs : t.id = id

TxIds == {t.id : t \in txs}

NoRes ==
    [op |-> "none", status |-> 0, actor |-> 0, user |-> 0, tx |-> 0, event |-> 0,
     amount |-> 0, flag |-> FALSE, pids |-> <<>>, pre |-> Null]

Resp(op, status, actor, user, tx, amount) ==
    [op |-> op, status |-> status, actor |-> actor, user |-> user, tx |-> tx,
     event |-> 0, amount |-> amount, flag |-> FALSE, pids |-> <<>>, pre |-> Null]

\* a handler that returns before any write
Reject(r) ==
    /\ res' = r
    /\ UNCHANGED <<users, txs, nextTxId, promos, usage, txPromos, events, now, inflight>>

\* prisma user.update({ data: { points: { increment: n } } })
Credit(us, u, n) == [us EXCEPT ![u].points = @ + n]

NewTx(id, userId, type, amount, spent, suspicious, relatedId, createdById, processedById) ==
    [id |-> id, userId |-> userId, type |-> type, amount |-> amount,
     spent |-> spent, suspicious |-> suspicious, relatedId |-> relatedId,
     createdById |-> createdById, processedById |-> processedById]

\* the model stops creating rows at MaxTx transactions
Room(n) == Cardinality(txs) + n <= MaxTx

----------------------------------------------------------------------------
(* Initial state: three users with no points, no transactions.             *)

UserTables ==
    { [u \in FirstUsers |->
         CASE u = 1 -> [role |-> "regular", points |-> 0, verified |-> TRUE,
                        suspicious |-> FALSE, passwordHash |-> Some(Hash(1)),
                        lastLogin |-> Null, resetToken |-> Null, name |-> 1]
           [] u = 2 -> [role |-> "cashier", points |-> 0, verified |-> ~s,
                        suspicious |-> s, passwordHash |-> Some(Hash(1)),
                        lastLogin |-> Null, resetToken |-> Null, name |-> 1]
           [] OTHER -> [role |-> "manager", points |-> 0, verified |-> TRUE,
                        suspicious |-> s, passwordHash |-> Some(Hash(1)),
                        lastLogin |-> Null, resetToken |-> Null, name |-> 1]] : s \in BOOLEAN }

\* promotions: 1 automatic (rate 0.05), 2 one-time (flat 5, minSpending 50.00),
\* 3 one-time (rate 0.01), each with its validity window
PromoTable ==
    [p \in PromoIds |->
       CASE p = 1 -> [type |-> "automatic", startTime |-> 0, endTime |-> 0,
                      minSpending |-> Null, rate |-> Some(5), points |-> Null,
                      name |-> 1]
         [] p = 2 -> [type |-> "onetime", startTime |-> 0, endTime |-> 1,
                      minSpending |-> Some(5000), rate |-> Null, points |-> Some(5),
                      name |-> 1]
         [] OTHER -> [type |-> "onetime", startTime |-> 1, endTime |-> 2,
                      minSpending |-> Null, rate |-> Some(1), points |-> Null,
                      name |-> 1]]

Handlers == 1 .. MaxHandlers

\* a handler slot with no request in progress
Idle ==
    [pc |-> "idle", actor |-> 0, user |-> 0, amount |-> 0, pids |-> <<>>,
     flag |-> FALSE, points |-> 0, verified |-> FALSE, automatic |-> {},
     event |-> 0, guests |-> {}, tx |-> 0]

Init ==
    /\ users \in UserTables
    /\ txs = {}
    /\ nextTxId = 1
    /\ promos = PromoTable
    /\ usage = <<>>
    /\ txPromos = {}
    /\ events = <<>>
    /\ now = 0
    /\ inflight = [h \in Handlers |-> Idle]
    /\ res = NoRes

----------------------------------------------------------------------------
(* POST /users/:userId/transactions (transfer)                             *)

TransferShort_Unchecked(points, intAmount) == FALSE

\* sender.points < intAmount
TransferShort(points, intAmount) == points < intAmount

TransferRows_SameRelated(id, sender, recipient, intAmount) ==
    { NewTx(id, sender, "transfer", -intAmount, Null, Null, Some(recipient),
            sender, Some(sender)),
      NewTx(id + 1, recipient, "transfer", intAmount, Null, Null, Some(recipient),
            sender, Some(sender)) }

\* the two transaction.create calls of the transfer
TransferRows(id, sender, recipient, intAmount) ==
    { NewTx(id, sender, "transfer", -intAmount, Null, Null, Some(recipient),
            sender, Some(sender)),
      NewTx(id + 1, recipient, "transfer", intAmount, Null, Null, Some(sender),
            sender, Some(sender)) }

SelfTransfer_Allowed(actor, recipientId) == FALSE

\* recipientId === req.auth.id
SelfTransfer(actor, recipientId) == recipientId = actor

Transfer(actor, recipientId, amount) ==
    LET r(status) == Resp("transfer", status, actor, recipientId, 0, amount)
        intAmount == Trunc(amount)
    IN  IF amount <= 0 THEN Reject(r(400))
        ELSE IF SelfTransfer(actor, recipientId) THEN Reject(r(400))
        ELSE IF recipientId \notin Users THEN Reject(r(404))
        ELSE IF ~users[actor].verified THEN Reject(r(403))
        ELSE IF TransferShort(users[actor].points, intAmount) THEN Reject(r(400))
        ELSE /\ Room(2)
             /\ txs' = txs \cup TransferRows(nextTxId, actor, recipientId, intAmount)
             /\ nextTxId' = nextTxId + 2
             /\ users' = Credit(Credit(users, actor, -intAmount), recipientId, intAmount)
             /\ res' = [r(201) EXCEPT !.tx = nextTxId]
             /\ UNCHANGED <<promos, usage, txPromos, events, now, inflight>>

----------------------------------------------------------------------------
(* POST /users/me/transactions (redemption request)                        *)

RedemptionShort_Strict(points, intAmount) == points <= intAmount

\* me.points < intAmount
RedemptionShort(points, intAmount) == points < intAmount

RedemptionRequest(actor, amount) ==
    LET r(status) == Resp("redemption", status, actor, actor, 0, amount)
        intAmount == Trunc(amount)
    IN  IF amount <= 0 THEN Reject(r(400))
        ELSE IF ~users[actor].verified THEN Reject(r(403))
        ELSE IF RedemptionShort(users[actor].points, intAmount) THEN Reject(r(400))
        ELSE /\ Room(1)
             /\ txs' = txs \cup {NewTx(nextTxId, actor, "redemption", intAmount, Null,
                                       Null, Null, actor, Null)}
             /\ nextTxId' = nextTxId + 1
             /\ res' = [r(201) EXCEPT !.tx = nextTxId]
             /\ UNCHANGED <<users, promos, usage, txPromos, events, now, inflight>>

\* POST /users/me/transactions as the route is registered: the type check
\* comes first, then the redemption request
MyTransaction(actor, body) ==
    IF body.type # "redemption"
    THEN Reject([Resp("myTransaction", 400, actor, body.recipientUtorid, 0, body.amount)
                   EXCEPT !.pre = Some(body.type)])
    ELSE RedemptionRequest(actor, body.amount)

\* parseInt of the text of a non-negative decimal number given in halves
ParseInt(text) == text \div 2

\* TransferPage.handleSubmit: the form posts type 'transfer', the recipient
\* and parseInt(amount) to /users/me/transactions
TransferPageSubmit(actor, recipientUtorid, amount) ==
    MyTransaction(actor, [type |-> "transfer", recipientUtorid |-> recipientUtorid,
                          amount |-> 2 * ParseInt(amount)])

----------------------------------------------------------------------------
(* PATCH /transactions/:id/processed                                       *)

ProcessShort_Unchecked(points, amount) == FALSE

\* u.points < t.amount
ProcessShort(points, amount) == points < amount

ProcessRedemption(actor, id) ==
    LET r(status) == Resp("processed", status, actor, 0, id, 0)
    IN  IF ORDER[users[actor].role] < ORDER["cashier"] THEN Reject(r(403))
        ELSE IF id \notin TxIds THEN Reject(r(404))
        ELSE LET t == TxById(id)
             IN  IF t.type # "redemption" \/ t.processedById # Null
                 THEN Reject(r(400))
                 ELSE IF ProcessShort(users[t.userId].points, t.amount)
                 THEN Reject(r(400))
                 ELSE /\ users' = Credit(users, t.userId, -t.amount)
                      /\ txs' = (txs \ {t}) \cup {[t EXCEPT !.processedById = Some(actor)]}
                      /\ res' = [r(200) EXCEPT !.user = t.userId, !.amount = t.amount]
                      /\ UNCHANGED <<nextTxId, promos, usage, txPromos, events, now, inflight>>

----------------------------------------------------------------------------
(* POST /transactions (adjustment)                                         *)

\* effectiveSuspicious = cashierSuspicious || bodySuspicious
EffectiveSuspicious(actorSuspicious, bodySuspicious) ==
    actorSuspicious \/ bodySuspicious

Adjustment(actor, utorid, amount, relatedId, suspicious) ==
    LET r(status) == [Resp("adjustment", status, actor, utorid, 0, amount)
                        EXCEPT !.flag = suspicious]
        effectiveSuspicious == EffectiveSuspicious(users[actor].suspicious, suspicious)
        intAmount == Trunc(amount)
    IN  IF ORDER[users[actor].role] < ORDER["manager"] THEN Reject(r(403))
        ELSE IF utorid \notin Users THEN Reject(r(404))
        ELSE IF relatedId # Null /\
                (Val(relatedId) \notin TxIds \/ TxById(Val(relatedId)).userId # utorid)
        THEN Reject(r(404))
        ELSE /\ Room(1)
             /\ txs' = txs \cup {NewTx(nextTxId, utorid, "adjustment", intAmount, Null,
                                       Some(effectiveSuspicious), relatedId, actor,
                                       Some(actor))}
             /\ nextTxId' = nextTxId + 1
             /\ users' = IF ~effectiveSuspicious /\ intAmount # 0
                         THEN Credit(users, utorid, intAmount)
                         ELSE users
             /\ res' = [r(201) EXCEPT !.tx = nextTxId]
             /\ UNCHANGED <<promos, usage, txPromos, events, now, inflight>>

----------------------------------------------------------------------------
(* POST /transactions (purchase)                                           *)

isActivePromo_Always(p) == TRUE

\* isActivePromo: p.startTime <= now() && p.endTime >= now()
isActivePromo(p) == p.startTime <= now /\ p.endTime >= now

ActiveOfType(type) ==
    {id \in DOMAIN promos : isActivePromo(promos[id]) /\ promos[id].type = type}

\* userPromotionUsage.findMany({ where: { userId, usedAt: { not: null } } })
UsedSet(userId) ==
    {usage[i].promotionId :
        i \in {j \in 1 .. Len(usage) : usage[j].userId = userId /\ usage[j].usedAt # Null}}

PidRejected_IgnoreUsed(pid, oneTime, usedSet) == pid \notin oneTime

\* !p || usedSet.has(pid), for p = oneTimeMap.get(pid)
PidRejected(pid, oneTime, usedSet) == pid \notin oneTime \/ pid \in usedSet

PromoBonus_OnBase(p, spent) ==
    IF p.minSpending # Null /\ spent < Val(p.minSpending) THEN 0
    ELSE (IF p.rate # Null THEN Round(basePoints(spent) * Val(p.rate), 100) ELSE 0)
         + (IF p.points # Null THEN Val(p.points) ELSE 0)

\* one turn of the bonus loops: the minSpending skip, then
\* Math.round(spentNum * 100 * rate) and points
PromoBonus(p, spent) ==
    IF p.minSpending # Null /\ spent < Val(p.minSpending) THEN 0
    ELSE (IF p.rate # Null THEN Round(spent * Val(p.rate), 100) ELSE 0)
         + (IF p.points # Null THEN Val(p.points) ELSE 0)

RECURSIVE SetBonus(_, _)
SetBonus(S, spent) ==
    IF S = {} THEN 0
    ELSE LET id == CHOOSE x \in S : TRUE
         IN  PromoBonus(promos[id], spent) + SetBonus(S \ {id}, spent)

RECURSIVE SeqBonus(_, _)
SeqBonus(ids, spent) ==
    IF ids = <<>> THEN 0
    ELSE PromoBonus(promos[Head(ids)], spent) + SeqBonus(Tail(ids), spent)

\* earned = base + extra
Earned(spent, automatic, chosenOneTime) ==
    basePoints(spent) + SetBonus(automatic, spent) + SeqBonus(chosenOneTime, spent)

Upsert_AlwaysCreate(rows, userId, promotionId) ==
    Append(rows, [userId |-> userId, promotionId |-> promotionId, usedAt |-> Some(now)])

Upsert_UpdateOnly(rows, userId, promotionId) ==
    [i \in 1 .. Len(rows) |->
        IF rows[i].userId = userId /\ rows[i].promotionId = promotionId
        THEN [rows[i] EXCEPT !.usedAt = Some(now)]
        ELSE rows[i]]

\* userPromotionUsage.upsert on the key (userId, promotionId)
Upsert(rows, userId, promotionId) ==
    IF \E i \in 1 .. Len(rows) :
           rows[i].userId = userId /\ rows[i].promotionId = promotionId
    THEN [i \in 1 .. Len(rows) |->
            IF rows[i].userId = userId /\ rows[i].promotionId = promotionId
            THEN [rows[i] EXCEPT !.usedAt = Some(now)]
            ELSE rows[i]]
    ELSE Append(rows, [userId |-> userId, promotionId |-> promotionId,
                       usedAt |-> Some(now)])

RECURSIVE UpsertAll(_, _, _)
UpsertAll(rows, userId, ids) ==
    IF ids = <<>> THEN rows
    ELSE UpsertAll(Upsert(rows, userId, Head(ids)), userId, Tail(ids))

SeqRange(q) == {q[i] : i \in 1 .. Len(q)}

RepeatsKey_None(ids) == FALSE

\* a transactionPromotion.create that repeats a key (transactionId, promotionId)
\* violates the primary key: the $transaction rolls back
RepeatsKey(ids) == \E i, j \in 1 .. Len(ids) : i < j /\ ids[i] = ids[j]

PurchaseCredit_Always(effectiveSuspicious, earned) == earned

\* if (!effectiveSuspicious && earned !== 0) points: { increment: earned }
PurchaseCredit(effectiveSuspicious, earned) ==
    IF ~effectiveSuspicious /\ earned # 0 THEN earned ELSE 0

Purchase(actor, utorid, spent, promotionIds, suspicious) ==
    LET r(status) == [Resp("purchase", status, actor, utorid, 0, spent)
                        EXCEPT !.flag = suspicious, !.pids = promotionIds]
        effectiveSuspicious == EffectiveSuspicious(users[actor].suspicious, suspicious)
        automatic == ActiveOfType("automatic")
        oneTime == ActiveOfType("onetime")
        usedSet == UsedSet(utorid)
        earned == Earned(spent, automatic, promotionIds)
    IN  IF ORDER[users[actor].role] < ORDER["cashier"] THEN Reject(r(403))
        ELSE IF spent < 0 THEN Reject(r(400))
        ELSE IF utorid \notin Users THEN Reject(r(404))
        ELSE IF \E i \in 1 .. Len(promotionIds) :
                    PidRejected(promotionIds[i], oneTime, usedSet)
        THEN Reject(r(400))
        ELSE IF RepeatsKey(promotionIds) THEN Reject(r(500))
        ELSE /\ Room(1)
             /\ Cardinality({t \in txs : t.type = "purchase"}) < MaxPurchases
             /\ txs' = txs \cup {NewTx(nextTxId, utorid, "purchase", earned, Some(spent),
                                       Some(effectiveSuspicious), Null, actor,
                                       Some(actor))}
             /\ nextTxId' = nextTxId + 1
             /\ txPromos' = txPromos \cup
                    {<<nextTxId, id>> : id \in automatic \cup SeqRange(promotionIds)}
             /\ usage' = UpsertAll(usage, utorid, promotionIds)
             /\ users' = Credit(users, utorid, PurchaseCredit(effectiveSuspicious, earned))
             /\ res' = [r(201) EXCEPT !.tx = nextTxId]
             /\ UNCHANGED <<promos, events, now, inflight>>

----------------------------------------------------------------------------
(* PATCH /transactions/:id/suspicious                                      *)

ToggleDelta_AlwaysDebit(suspicious, amount) == -amount

\* delta = suspicious ? -t.amount : t.amount
ToggleDelta(suspicious, amount) == IF suspicious THEN -amount ELSE amount

\* t.suspicious === suspicious (strict equality: NULL equals neither boolean)
SameFlag(stored, suspicious) == stored = Some(suspicious)

\* res.pre remembers, across a mark and the un-mark that directly follows it
\* on the same transaction, the rows as they were before the mark
SetSuspicious(actor, id, suspicious) ==
    LET r(status) == [Resp("suspicious", status, actor, 0, id, 0)
                        EXCEPT !.flag = suspicious]
    IN  IF ORDER[users[actor].role] < ORDER["manager"] THEN Reject(r(403))
        ELSE IF id \notin TxIds THEN Reject(r(404))
        ELSE LET t == TxById(id)
                 pre == IF suspicious
                        THEN Some([users |-> users, was |-> t.suspicious])
                        ELSE IF res.op = "suspicious" /\ res.status = 200
                                /\ res.flag /\ res.tx = id
                             THEN res.pre
                             ELSE Null
                 ok == [r(200) EXCEPT !.user = t.userId, !.amount = t.amount,
                                      !.pre = pre]
             IN  IF SameFlag(t.suspicious, suspicious) THEN Reject(ok)
                 ELSE /\ txs' = (txs \ {t}) \cup
                                    {[t EXCEPT !.suspicious = Some(suspicious)]}
                      /\ users' = Credit(users, t.userId,
                                         ToggleDelta(suspicious, t.amount))
                      /\ res' = ok
                      /\ UNCHANGED <<nextTxId, promos, usage, txPromos, events, now, inflight>>

----------------------------------------------------------------------------
(* Events                                                                  *)

LiveEvent(id) == id \in 1 .. Len(events) /\ ~events[id].deleted

isManager(actor) == ORDER[users[actor].role] >= ORDER["manager"]

isOrganizer(actor, id) == actor \in events[id].organizers

EventResp(op, status, actor, id, user, amount) ==
    [Resp(op, status, actor, user, 0, amount) EXCEPT !.event = id]

\* POST /events
CreateEvent(actor, startTime, endTime, capacity, points) ==
    LET r(status) == EventResp("createEvent", status, actor, 0, 0, points)
    IN  IF ~isManager(actor) THEN Reject(r(403))
        ELSE IF points <= 0 THEN Reject(r(400))
        ELSE IF ~(endTime > startTime) THEN Reject(r(400))
        ELSE IF capacity # Null /\ Val(capacity) <= 0 THEN Reject(r(400))
        ELSE /\ Len(events) < MaxEvents
             /\ events' = Append(events,
                    [deleted |-> FALSE, startTime |-> startTime, endTime |-> endTime,
                     capacity |-> capacity, published |-> FALSE,
                     pointsTotal |-> points, pointsRemain |-> points,
                     pointsAwarded |-> 0, guests |-> {}, organizers |-> {}])
             /\ res' = [r(201) EXCEPT !.event = Len(events) + 1]
             /\ UNCHANGED <<users, txs, nextTxId, promos, usage, txPromos, now, inflight>>

NoPatch == [published |-> Null, startTime |-> Null, endTime |-> Null,
            capacity |-> Null, points |-> Null]

\* PATCH /events/:id; body holds the fields present in the request (the
\* descriptive fields name, description and location are not modelled)
PatchEvent(actor, id, body) ==
    LET r(status) == [EventResp("patchEvent", status, actor, id, 0,
                                IF body.points = Null THEN 0 ELSE Val(body.points))
                        EXCEPT !.pre = Some(body)]
    IN  IF ~LiveEvent(id) THEN Reject(r(404))
        ELSE IF ~isManager(actor) /\ ~isOrganizer(actor, id) THEN Reject(r(403))
        ELSE LET e == events[id]
                 afterStart == e.startTime <= now
                 afterEnd == e.endTime < now
                 stBase == IF body.startTime # Null THEN Val(body.startTime)
                           ELSE e.startTime
                 e1 == IF body.published # Null THEN [e EXCEPT !.published = TRUE]
                       ELSE e
                 e2 == IF body.startTime # Null
                       THEN [e1 EXCEPT !.startTime = Val(body.startTime)] ELSE e1
                 e3 == IF body.endTime # Null
                       THEN [e2 EXCEPT !.endTime = Val(body.endTime)] ELSE e2
                 e4 == IF body.capacity # Null
                       THEN [e3 EXCEPT !.capacity = body.capacity] ELSE e3
                 e5 == IF body.points # Null
                       THEN [e4 EXCEPT !.pointsTotal = Val(body.points),
                                       !.pointsRemain =
                                           e.pointsRemain + (Val(body.points) - e.pointsTotal)]
                       ELSE e4
             IN  IF body.published # Null /\ ~isManager(actor) THEN Reject(r(403))
                 ELSE IF body.published # Null /\ ~Val(body.published)
                 THEN Reject(r(400))
                 ELSE IF body.startTime # Null /\
                         (afterStart \/ ~(Val(body.startTime) > now))
                 THEN Reject(r(400))
                 ELSE IF body.endTime # Null /\
                         (afterEnd \/ ~(Val(body.endTime) > stBase))
                 THEN Reject(r(400))
                 ELSE IF body.capacity # Null /\
                         (afterStart \/ Val(body.capacity) <= 0
                          \/ Val(body.capacity) < Cardinality(e.guests))
                 THEN Reject(r(400))
                 ELSE IF body.points # Null /\ ~isManager(actor) THEN Reject(r(403))
                 ELSE IF body.points # Null /\
                         (Val(body.points) <= 0
                          \/ e.pointsRemain + (Val(body.points) - e.pointsTotal) < 0)
                 THEN Reject(r(400))
                 ELSE IF body = NoPatch THEN Reject(r(400))
                 ELSE /\ events' = [events EXCEPT ![id] = e5]
                      /\ res' = r(200)
                      /\ UNCHANGED <<users, txs, nextTxId, promos, usage, txPromos, now, inflight>>

\* POST /events/:id/organizers
AddOrganizer(actor, id, utorid) ==
    LET r(status) == EventResp("addOrganizer", status, actor, id, utorid, 0)
    IN  IF ~isManager(actor) THEN Reject(r(403))
        ELSE IF ~LiveEvent(id) THEN Reject(r(404))
        ELSE IF events[id].endTime < now THEN Reject(r(410))
        ELSE IF utorid \notin Users THEN Reject(r(404))
        ELSE IF utorid \in events[id].guests THEN Reject(r(400))
        ELSE /\ events' = [events EXCEPT ![id].organizers = @ \cup {utorid}]
             /\ res' = r(201)
             /\ UNCHANGED <<users, txs, nextTxId, promos, usage, txPromos, now, inflight>>

Full_OffByOne(cnt, capacity) == cnt > capacity

\* cnt >= e.capacity
Full(cnt, capacity) == cnt >= capacity

\* POST /events/:id/guests
AddGuest(actor, id, utorid) ==
    LET r(status) == EventResp("addGuest", status, actor, id, utorid, 0)
    IN  IF ~LiveEvent(id) THEN Reject(r(404))
        ELSE IF ~isManager(actor) /\ ~isOrganizer(actor, id) THEN Reject(r(403))
        ELSE IF isOrganizer(actor, id) /\ ~events[id].published THEN Reject(r(404))
        ELSE IF events[id].endTime < now THEN Reject(r(410))
        ELSE IF utorid \notin Users THEN Reject(r(404))
        ELSE IF utorid \in events[id].organizers THEN Reject(r(400))
        ELSE IF utorid \in events[id].guests THEN Reject(r(400))
        ELSE IF events[id].capacity # Null /\
                Full(Cardinality(events[id].guests), Val(events[id].capacity))
        THEN Reject(r(410))
        ELSE /\ events' = [events EXCEPT ![id].guests = @ \cup {utorid}]
             /\ res' = r(201)
             /\ UNCHANGED <<users, txs, nextTxId, promos, usage, txPromos, now, inflight>>

\* POST /events/:id/guests/me
RsvpSelf(actor, id) ==
    LET r(status) == EventResp("rsvp", status, actor, id, actor, 0)
    IN  IF ~LiveEvent(id) THEN Reject(r(404))
        ELSE IF ~events[id].published THEN Reject(r(404))
        ELSE IF events[id].endTime < now THEN Reject(r(410))
        ELSE IF actor \in events[id].organizers THEN Reject(r(400))
        ELSE IF actor \in events[id].guests THEN Reject(r(400))
        ELSE IF events[id].capacity # Null /\
                Full(Cardinality(events[id].guests), Val(events[id].capacity))
        THEN Reject(r(410))
        ELSE /\ events' = [events EXCEPT ![id].guests = @ \cup {actor}]
             /\ res' = r(201)
             /\ UNCHANGED <<users, txs, nextTxId, promos, usage, txPromos, now, inflight>>

\* DELETE /events/:id/guests/me
CancelRsvp(actor, id) ==
    LET r(status) == EventResp("cancelRsvp", status, actor, id, actor, 0)
    IN  IF ~LiveEvent(id) THEN Reject(r(404))
        ELSE IF events[id].endTime < now THEN Reject(r(410))
        ELSE IF actor \notin events[id].guests THEN Reject(r(404))
        ELSE /\ events' = [events EXCEPT ![id].guests = @ \ {actor}]
             /\ res' = r(204)
             /\ UNCHANGED <<users, txs, nextTxId, promos, usage, txPromos, now, inflight>>

\* DELETE /events/:id/guests/:userId
RemoveGuest(actor, id, userId) ==
    LET r(status) == EventResp("removeGuest", status, actor, id, userId, 0)
    IN  IF ~isManager(actor) THEN Reject(r(403))
        ELSE IF ~(LiveEvent(id) /\ userId \in events[id].guests) THEN Reject(r(404))
        ELSE /\ events' = [events EXCEPT ![id].guests = @ \ {userId}]
             /\ res' = r(204)
             /\ UNCHANGED <<users, txs, nextTxId, promos, usage, txPromos, now, inflight>>

DeleteRefused_Never(e) == FALSE

\* e.published === true
DeleteRefused(e) == e.published

\* DELETE /events/:id
DeleteEvent(actor, id) ==
    LET r(status) == EventResp("deleteEvent", status, actor, id, 0, 0)
    IN  IF ~isManager(actor) THEN Reject(r(403))
        ELSE IF ~LiveEvent(id) THEN Reject(r(404))
        ELSE IF DeleteRefused(events[id]) THEN Reject(r(400))
        ELSE /\ events' = [events EXCEPT ![id].deleted = TRUE, ![id].guests = {},
                                         ![id].organizers = {}]
             /\ txs' = {t \in txs : ~(t.type = "event" /\ t.relatedId = Some(id))}
             /\ res' = r(204)
             /\ UNCHANGED <<users, nextTxId, promos, usage, txPromos, now, inflight>>

AwardShort_Unchecked(pointsRemain, needed) == FALSE

\* e.pointsRemain < needed (all guests), e.pointsRemain < award (one guest)
AwardShort(pointsRemain, needed) == pointsRemain < needed

Needed_PerGuest(award, n) == award

\* needed = award * guests.length
Needed(award, n) == award * n

\* the guests in the order of the EventGuest key
RECURSIVE InOrder(_)
InOrder(S) ==
    IF S = {} THEN <<>>
    ELSE LET m == CHOOSE x \in S : \A y \in S : x <= y
         IN  <<m>> \o InOrder(S \ {m})

RECURSIVE CreditAll(_, _, _)
CreditAll(us, S, n) ==
    IF S = {} THEN us
    ELSE LET u == CHOOSE x \in S : TRUE
         IN  CreditAll(Credit(us, u, n), S \ {u}, n)

\* POST /events/:id/transactions; amount in halves, utorid absent (Null) for
\* an award to all guests
AwardEvent(actor, id, utorid, amount) ==
    LET r(status) == EventResp("award", status, actor, id,
                               IF utorid = Null THEN 0 ELSE Val(utorid), amount)
        award == amount \div 2
        row(txId, u) == NewTx(txId, u, "event", award, Null, Null, Some(id), actor,
                              Some(actor))
    IN  IF amount % 2 # 0 \/ award <= 0 THEN Reject(r(400))
        ELSE IF ~LiveEvent(id) THEN Reject(r(404))
        ELSE IF ~isManager(actor) /\ ~isOrganizer(actor, id) THEN Reject(r(403))
        ELSE IF utorid = Null
        THEN LET guests == InOrder(events[id].guests)
                 needed == Needed(award, Len(guests))
             IN  IF AwardShort(events[id].pointsRemain, needed) THEN Reject(r(400))
                 ELSE IF Len(guests) = 0 THEN Reject(r(200))
                 ELSE /\ Room(Len(guests))
                      /\ txs' = txs \cup
                            {row(nextTxId + i - 1, guests[i]) : i \in 1 .. Len(guests)}
                      /\ nextTxId' = nextTxId + Len(guests)
                      /\ users' = CreditAll(users, events[id].guests, award)
                      /\ events' = [events EXCEPT
                                       ![id].pointsRemain = @ - needed,
                                       ![id].pointsAwarded = @ + needed]
                      /\ res' = [r(200) EXCEPT !.tx = nextTxId]
                      /\ UNCHANGED <<promos, usage, txPromos, now, inflight>>
        ELSE IF Val(utorid) \notin Users THEN Reject(r(404))
        ELSE IF Val(utorid) \notin events[id].guests THEN Reject(r(400))
        ELSE IF AwardShort(events[id].pointsRemain, award) THEN Reject(r(400))
        ELSE /\ Room(1)
             /\ txs' = txs \cup {row(nextTxId, Val(utorid))}
             /\ nextTxId' = nextTxId + 1
             /\ users' = Credit(users, Val(utorid), award)
             /\ events' = [events EXCEPT ![id].pointsRemain = @ - award,
                                         ![id].pointsAwarded = @ + award]
             /\ res' = [r(201) EXCEPT !.tx = nextTxId]
             /\ UNCHANGED <<promos, usage, txPromos, now, inflight>>

----------------------------------------------------------------------------
(* Promotions                                                              *)

PromoAfterStart_Never(p) == FALSE

\* afterStart = p.startTime <= now()
PromoAfterStart(p) == p.startTime <= now

\* afterEnd = p.endTime < now()
PromoAfterEnd(p) == p.endTime < now

NoPromoPatch ==
    [name |-> Null, type |-> Null, startTime |-> Null, endTime |-> Null,
     points |-> Null]

PromoStep(r, ps) ==
    /\ promos' = ps
    /\ res' = r
    /\ UNCHANGED <<users, txs, nextTxId, usage, txPromos, events, now, inflight>>

\* PATCH /promotions/:id; body holds the keys present in the request (of
\* minSpending, rate and points only points is modelled; name 0 is blank)
PatchPromotion(actor, id, body) ==
    LET r(status) == [Resp("patchPromotion", status, actor, 0, id, 0)
                        EXCEPT !.pre = Some(body)]
    IN  IF ORDER[users[actor].role] < ORDER["manager"] THEN Reject(r(403))
        ELSE IF id \notin DOMAIN promos THEN Reject(r(404))
        ELSE LET p == promos[id]
                 named == IF body.name # Null THEN [p EXCEPT !.name = Val(body.name)]
                          ELSE p
                 pointed(q) == IF body.points # Null
                               THEN [q EXCEPT !.points = body.points] ELSE q
                 stBase == IF body.startTime # Null THEN Val(body.startTime)
                           ELSE p.startTime
                 started == pointed(IF body.endTime # Null
                                    THEN [named EXCEPT !.endTime = Val(body.endTime)]
                                    ELSE named)
                 q1 == IF body.type # Null THEN [named EXCEPT !.type = Val(body.type)]
                       ELSE named
                 q2 == IF body.startTime # Null
                       THEN [q1 EXCEPT !.startTime = Val(body.startTime)] ELSE q1
                 q3 == pointed(IF body.endTime # Null
                               THEN [q2 EXCEPT !.endTime = Val(body.endTime)] ELSE q2)
             IN  IF body.name # Null /\ Val(body.name) = 0 THEN Reject(r(400))
                 ELSE IF PromoAfterEnd(p)
                 THEN IF body.name = Null THEN Reject(r(400))
                      ELSE PromoStep(r(200), [promos EXCEPT ![id] = named])
                 ELSE IF PromoAfterStart(p)
                 THEN IF body.type # Null \/ body.startTime # Null THEN Reject(r(400))
                      ELSE IF body.endTime # Null /\
                              ~(Val(body.endTime) > now
                                /\ Val(body.endTime) > p.startTime)
                      THEN Reject(r(400))
                      ELSE IF body.points # Null /\ Val(body.points) < 0
                      THEN Reject(r(400))
                      ELSE IF body = NoPromoPatch THEN Reject(r(400))
                      ELSE PromoStep(r(200), [promos EXCEPT ![id] = started])
                 ELSE IF body.type # Null /\
                         Val(body.type) \notin {"automatic", "onetime"}
                 THEN Reject(r(400))
                 ELSE IF body.startTime # Null /\ ~(Val(body.startTime) > now)
                 THEN Reject(r(400))
                 ELSE IF body.endTime # Null /\
                         ~(Val(body.endTime) >= now /\ Val(body.endTime) > stBase)
                 THEN Reject(r(400))
                 ELSE IF body.points # Null /\ Val(body.points) < 0
                 THEN Reject(r(400))
                 ELSE IF body = NoPromoPatch THEN Reject(r(400))
                 ELSE PromoStep(r(200), [promos EXCEPT ![id] = q3])

\* DELETE /promotions/:id
DeletePromotion(actor, id) ==
    LET r(status) == Resp("deletePromotion", status, actor, 0, id, 0)
    IN  IF ORDER[users[actor].role] < ORDER["manager"] THEN Reject(r(403))
        ELSE IF id \notin DOMAIN promos THEN Reject(r(404))
        ELSE IF promos[id].startTime <= now THEN Reject(r(403))
        ELSE PromoStep(r(204), [q \in DOMAIN promos \ {id} |-> promos[q]])

----------------------------------------------------------------------------
(* Authentication and user resources.  Passwords and names are small       *)
(* numbers, 0 standing for a value the format checks refuse; a reset       *)
(* token is named by the user it belongs to; time is counted in hours.     *)

NewUser_Bonus ==
    [role |-> "regular", points |-> 10, verified |-> FALSE, suspicious |-> FALSE,
     passwordHash |-> Null, lastLogin |-> Null, resetToken |-> Null, name |-> 1]

\* prisma.user.create({ data: { utorid, name, email, verified: false,
\* role: 'regular' } }) with the column defaults of the User table
NewUser ==
    [role |-> "regular", points |-> 0, verified |-> FALSE, suspicious |-> FALSE,
     passwordHash |-> Null, lastLogin |-> Null, resetToken |-> Null, name |-> 1]

UserStep(r, us) ==
    /\ users' = us
    /\ res' = r
    /\ UNCHANGED <<txs, nextTxId, promos, usage, txPromos, events, now, inflight>>

\* POST /auth/tokens
Login(utorid, password) ==
    LET r(status) == Resp("login", status, 0, utorid, 0, 0)
    IN  IF password = 0 THEN Reject(r(400))
        ELSE IF utorid \notin Users \/ users[utorid].passwordHash = Null
        THEN Reject(r(401))
        ELSE IF ~Compare(password, Val(users[utorid].passwordHash)) THEN Reject(r(401))
        ELSE UserStep(r(200), [users EXCEPT ![utorid].lastLogin = Some(now)])

\* POST /auth/resets
RequestReset(utorid) ==
    LET r(status) == Resp("requestReset", status, 0, utorid, 0, 0)
    IN  IF utorid \notin Users THEN Reject(r(404))
        ELSE UserStep(r(202),
                      [users EXCEPT ![utorid].resetToken = Some([expiresAt |-> now + 1])])

\* POST /auth/resets/:resetToken
CompleteReset(token, utorid, password) ==
    LET r(status) == Resp("completeReset", status, 0, utorid, 0, 0)
    IN  IF token \notin Users \/ users[token].resetToken = Null THEN Reject(r(404))
        ELSE IF Val(users[token].resetToken).expiresAt <= now THEN Reject(r(410))
        ELSE IF token # utorid THEN Reject(r(401))
        ELSE IF password = 0 THEN Reject(r(400))
        ELSE UserStep(r(200),
                      [users EXCEPT ![token].passwordHash = Some(Hash(password)),
                                    ![token].resetToken = Null])

\* POST /users; the new row takes the next id, which names its utorid
CreateUser(actor, utorid) ==
    LET r(status) == Resp("createUser", status, actor, utorid, 0, 0)
    IN  IF ORDER[users[actor].role] < ORDER["cashier"] THEN Reject(r(403))
        ELSE IF utorid = 0 THEN Reject(r(400))
        ELSE IF utorid \in Users THEN Reject(r(409))
        ELSE /\ utorid = Cardinality(Users) + 1
             /\ utorid <= MaxUsers
             /\ UserStep(r(201),
                    [u \in Users \cup {utorid} |->
                       IF u = utorid
                       THEN [NewUser EXCEPT !.resetToken = Some([expiresAt |-> now + 168])]
                       ELSE users[u]])

\* PATCH /users/me; body.name absent (Null) or present
UpdateSelf(actor, body) ==
    LET r(status) == Resp("updateSelf", status, actor, actor, 0, 0)
    IN  IF body.name # Null /\ Val(body.name) = 0 THEN Reject(r(400))
        ELSE IF body.name = Null THEN Reject(r(400))
        ELSE UserStep(r(200), [users EXCEPT ![actor].name = Val(body.name)])

NoUserPatch == [role |-> Null, verified |-> Null, suspicious |-> Null, points |-> Null]

\* PATCH /users/:userId; only role, email, verified and suspicious are read
\* from the body
UpdateUser(actor, id, body) ==
    LET r(status) == Resp("updateUser", status, actor, id, 0, 0)
    IN  IF ORDER[users[actor].role] < ORDER["manager"] THEN Reject(r(403))
        ELSE IF id \notin Users THEN Reject(r(404))
        ELSE LET target == users[id]
                 u1 == IF body.role # Null THEN [target EXCEPT !.role = Val(body.role)]
                       ELSE target
                 u2 == IF body.verified # Null THEN [u1 EXCEPT !.verified = TRUE]
                       ELSE u1
                 u3 == IF body.suspicious # Null
                       THEN [u2 EXCEPT !.suspicious = Val(body.suspicious)] ELSE u2
             IN  IF body.role # Null /\ Val(body.role) \notin DOMAIN ORDER
                 THEN Reject(r(400))
                 ELSE IF body.role # Null /\ users[actor].role # "superuser"
                         /\ Val(body.role) \notin {"regular", "cashier"}
                 THEN Reject(r(403))
                 ELSE IF body.role # Null /\ Val(body.role) = "cashier"
                         /\ target.suspicious
                 THEN Reject(r(400))
                 ELSE IF body.verified # Null /\ ~Val(body.verified)
                 THEN Reject(r(400))
                 ELSE IF body.role = Null /\ body.verified = Null
                         /\ body.suspicious = Null
                 THEN Reject(r(400))
                 ELSE UserStep([r(200) EXCEPT !.pre = body.points],
                               [users EXCEPT ![id] = u3])

\* PATCH /users/me/password
ChangePassword(actor, old, new) ==
    LET r(status) == Resp("changePassword", status, actor, actor, 0, 0)
    IN  IF old = 0 \/ new = 0 THEN Reject(r(400))
        ELSE IF users[actor].passwordHash = Null THEN Reject(r(403))
        ELSE IF ~Compare(old, Val(users[actor].passwordHash)) THEN Reject(r(403))
        ELSE UserStep(r(200), [users EXCEPT ![actor].passwordHash = Some(Hash(new))])

----------------------------------------------------------------------------
(* Handlers split at their store calls.  A handler slot h runs one request *)
(* at a time; between two of its steps any other slot may take steps.      *)

\* slot h sends its response
Answer(h, r) ==
    /\ res' = r
    /\ inflight' = [inflight EXCEPT ![h] = Idle]

\* slot h suspends at its next store call
Suspend(h, st) ==
    /\ inflight' = [inflight EXCEPT ![h] = st]
    /\ UNCHANGED res

RaceRoom(n) == Cardinality(txs) + n <= MaxRaceTx

\* POST /users/:userId/transactions up to prisma.user.findUnique (sender)
TransferBegin(h, actor, recipientId, amount) ==
    LET r(status) == Resp("transfer", status, actor, recipientId, 0, amount)
    IN  /\ inflight[h].pc = "idle"
        /\ IF amount <= 0 \/ SelfTransfer(actor, recipientId) THEN Answer(h, r(400))
           ELSE Suspend(h, [Idle EXCEPT !.pc = "recipient", !.actor = actor,
                                        !.user = recipientId, !.amount = amount,
                                        !.points = users[actor].points,
                                        !.verified = users[actor].verified])
        /\ UNCHANGED <<users, txs, nextTxId, promos, usage, txPromos, events, now>>

\* ... from prisma.user.findUnique (recipient) through the checks made on
\* the rows read
TransferCheck(h) ==
    LET st == inflight[h]
        r(status) == Resp("transfer", status, st.actor, st.user, 0, st.amount)
    IN  /\ st.pc = "recipient"
        /\ IF st.user \notin Users THEN Answer(h, r(404))
           ELSE IF ~st.verified THEN Answer(h, r(403))
           ELSE IF TransferShort(st.points, Trunc(st.amount)) THEN Answer(h, r(400))
           ELSE Suspend(h, [st EXCEPT !.pc = "transfer"])
        /\ UNCHANGED <<users, txs, nextTxId, promos, usage, txPromos, events, now>>

\* ... the prisma.$transaction of the transfer and the response
TransferCommit(h) ==
    LET st == inflight[h]
        intAmount == Trunc(st.amount)
    IN  /\ st.pc = "transfer"
        /\ RaceRoom(2)
        /\ txs' = txs \cup TransferRows(nextTxId, st.actor, st.user, intAmount)
        /\ nextTxId' = nextTxId + 2
        /\ users' = Credit(Credit(users, st.actor, -intAmount), st.user, intAmount)
        /\ Answer(h, Resp("transfer", 201, st.actor, st.user, nextTxId, st.amount))
        /\ UNCHANGED <<promos, usage, txPromos, events, now>>

\* POST /transactions (purchase) through its four reads (target user,
\* cashier, promotions, usage rows) and the validation of promotionIds; of
\* the rows read only the usage rows are written by another handler
PurchaseBegin(h, actor, utorid, spent, promotionIds, suspicious) ==
    LET r(status) == [Resp("purchase", status, actor, utorid, 0, spent)
                        EXCEPT !.flag = suspicious, !.pids = promotionIds]
        oneTime == ActiveOfType("onetime")
        usedSet == UsedSet(utorid)
    IN  /\ inflight[h].pc = "idle"
        /\ IF ORDER[users[actor].role] < ORDER["cashier"] THEN Answer(h, r(403))
           ELSE IF spent < 0 THEN Answer(h, r(400))
           ELSE IF utorid \notin Users THEN Answer(h, r(404))
           ELSE IF \E i \in 1 .. Len(promotionIds) :
                       PidRejected(promotionIds[i], oneTime, usedSet)
           THEN Answer(h, r(400))
           ELSE Suspend(h, [Idle EXCEPT
                              !.pc = "purchase", !.actor = actor, !.user = utorid,
                              !.amount = spent, !.pids = promotionIds,
                              !.flag = EffectiveSuspicious(users[actor].suspicious,
                                                           suspicious),
                              !.automatic = ActiveOfType("automatic")])
        /\ UNCHANGED <<users, txs, nextTxId, promos, usage, txPromos, events, now>>

\* ... the prisma.$transaction of the purchase and the response
PurchaseCommit(h) ==
    LET st == inflight[h]
        r(status) == [Resp("purchase", status, st.actor, st.user, 0, st.amount)
                        EXCEPT !.flag = st.flag, !.pids = st.pids]
        earned == Earned(st.amount, st.automatic, st.pids)
    IN  /\ st.pc = "purchase"
        /\ IF RepeatsKey(st.pids)
           THEN /\ Answer(h, r(500))
                /\ UNCHANGED <<users, txs, nextTxId, usage, txPromos>>
           ELSE /\ Room(1)
                /\ Cardinality({t \in txs : t.type = "purchase"}) < MaxPurchases
                /\ txs' = txs \cup {NewTx(nextTxId, st.user, "purchase", earned,
                                          Some(st.amount), Some(st.flag), Null,
                                          st.actor, Some(st.actor))}
                /\ nextTxId' = nextTxId + 1
                /\ txPromos' = txPromos \cup
                       {<<nextTxId, id>> : id \in st.automatic \cup SeqRange(st.pids)}
                /\ usage' = UpsertAll(usage, st.user, st.pids)
                /\ users' = Credit(users, st.user, PurchaseCredit(st.flag, earned))
                /\ Answer(h, [r(201) EXCEPT !.tx = nextTxId])
        /\ UNCHANGED <<promos, events, now>>

\* POST /events/:id/transactions from prisma.event.findUnique through the
\* checks made on the rows read (the event row e, the organizer row, the
\* guest rows); of these rows only the event row is written by another
\* handler here
AwardBegin(h, actor, id, utorid, amount) ==
    LET r(status) == EventResp("award", status, actor, id,
                               IF utorid = Null THEN 0 ELSE Val(utorid), amount)
        award == amount \div 2
        st == [Idle EXCEPT !.actor = actor, !.event = id, !.amount = amount]
    IN  /\ inflight[h].pc = "idle"
        /\ IF amount % 2 # 0 \/ award <= 0 THEN Answer(h, r(400))
           ELSE IF ~LiveEvent(id) THEN Answer(h, r(404))
           ELSE IF ~isManager(actor) /\ ~isOrganizer(actor, id) THEN Answer(h, r(403))
           ELSE IF utorid = Null
           THEN LET guests == events[id].guests
                    needed == Needed(award, Cardinality(guests))
                IN  IF AwardShort(events[id].pointsRemain, needed)
                    THEN Answer(h, r(400))
                    ELSE IF guests = {} THEN Answer(h, r(200))
                    ELSE Suspend(h, [st EXCEPT !.pc = "awardAll", !.guests = guests])
           ELSE IF Val(utorid) \notin Users THEN Answer(h, r(404))
           ELSE IF Val(utorid) \notin events[id].guests THEN Answer(h, r(400))
           ELSE IF AwardShort(events[id].pointsRemain, award) THEN Answer(h, r(400))
           ELSE Suspend(h, [st EXCEPT !.pc = "awardOne", !.user = Val(utorid),
                                      !.guests = {Val(utorid)}])
        /\ UNCHANGED <<users, txs, nextTxId, promos, usage, txPromos, events, now>>

\* ... the prisma.$transaction of the award (to all guests or to one) and
\* the response
AwardCommit(h) ==
    LET st == inflight[h]
        award == st.amount \div 2
        guests == InOrder(st.guests)
        needed == IF st.pc = "awardAll" THEN Needed(award, Len(guests)) ELSE award
        row(txId, u) == NewTx(txId, u, "event", award, Null, Null, Some(st.event),
                              st.actor, Some(st.actor))
    IN  /\ st.pc \in {"awardAll", "awardOne"}
        /\ RaceRoom(Len(guests))
        /\ txs' = txs \cup {row(nextTxId + i - 1, guests[i]) : i \in 1 .. Len(guests)}
        /\ nextTxId' = nextTxId + Len(guests)
        /\ users' = CreditAll(users, st.guests, award)
        /\ events' = [events EXCEPT ![st.event].pointsRemain = @ - needed,
                                    ![st.event].pointsAwarded = @ + needed]
        /\ Answer(h, [EventResp("award", IF st.pc = "awardAll" THEN 200 ELSE 201,
                                st.actor, st.event, st.user, st.amount)
                        EXCEPT !.tx = nextTxId])
        /\ UNCHANGED <<promos, usage, txPromos, now>>

\* PATCH /events/:id with a body holding only points, from
\* prisma.event.findUnique through the computation of data
PatchPointsBegin(h, actor, id, points) ==
    LET r(status) == EventResp("patchEvent", status, actor, id, 0, points)
    IN  /\ inflight[h].pc = "idle"
        /\ IF ~LiveEvent(id) THEN Answer(h, r(404))
           ELSE IF ~isManager(actor) /\ ~isOrganizer(actor, id) THEN Answer(h, r(403))
           ELSE IF ~isManager(actor) THEN Answer(h, r(403))
           ELSE LET e == events[id]
                    newTotal == points
                    delta == newTotal - e.pointsTotal
                IN  IF points <= 0 \/ e.pointsRemain + delta < 0 THEN Answer(h, r(400))
                    ELSE Suspend(h, [Idle EXCEPT !.pc = "patchPoints", !.actor = actor,
                                                 !.event = id, !.amount = newTotal,
                                                 !.points = e.pointsRemain + delta])
        /\ UNCHANGED <<users, txs, nextTxId, promos, usage, txPromos, events, now>>

\* ... prisma.event.update({ where: { id }, data }) and the response
PatchPointsCommit(h) ==
    LET st == inflight[h]
    IN  /\ st.pc = "patchPoints"
        /\ events' = [events EXCEPT ![st.event].pointsTotal = st.amount,
                                    ![st.event].pointsRemain = st.points]
        /\ Answer(h, EventResp("patchEvent", 200, st.actor, st.event, 0, st.amount))
        /\ UNCHANGED <<users, txs, nextTxId, promos, usage, txPromos, now>>

\* PATCH /transactions/:id/processed up to prisma.transaction.findUnique and
\* the checks on the row t read
ProcessBegin(h, actor, id) ==
    LET r(status) == Resp("processed", status, actor, 0, id, 0)
    IN  /\ inflight[h].pc = "idle"
        /\ IF ORDER[users[actor].role] < ORDER["cashier"] THEN Answer(h, r(403))
           ELSE IF id \notin TxIds THEN Answer(h, r(404))
           ELSE LET t == TxById(id)
                IN  IF t.type # "redemption" \/ t.processedById # Null
                    THEN Answer(h, r(400))
                    ELSE Suspend(h, [Idle EXCEPT !.pc = "owner", !.actor = actor,
                                                 !.tx = id, !.user = t.userId,
                                                 !.amount = t.amount])
        /\ UNCHANGED <<users, txs, nextTxId, promos, usage, txPromos, events, now>>

\* ... prisma.user.findUnique of the owner u and the balance check
ProcessCheck(h) ==
    LET st == inflight[h]
        r(status) == Resp("processed", status, st.actor, st.user, st.tx, st.amount)
    IN  /\ st.pc = "owner"
        /\ IF ProcessShort(users[st.user].points, st.amount) THEN Answer(h, r(400))
           ELSE Suspend(h, [st EXCEPT !.pc = "process"])
        /\ UNCHANGED <<users, txs, nextTxId, promos, usage, txPromos, events, now>>

\* ... the prisma.$transaction (decrement of the balance, update of
\* processedById) and the response
ProcessCommit(h) ==
    LET st == inflight[h]
        t == TxById(st.tx)
    IN  /\ st.pc = "process"
        /\ users' = Credit(users, st.user, -st.amount)
        /\ txs' = (txs \ {t}) \cup {[t EXCEPT !.processedById = Some(st.actor)]}
        /\ Answer(h, Resp("processed", 200, st.actor, st.user, st.tx, st.amount))
        /\ UNCHANGED <<nextTxId, promos, usage, txPromos, events, now>>

InDrift(n) == -MaxDrift <= n /\ n <= MaxDrift

\* PATCH /transactions/:id/suspicious up to prisma.transaction.findUnique and
\* the comparison of the flag of the row t read
ToggleBegin(h, actor, id, suspicious) ==
    LET r(status) == [Resp("suspicious", status, actor, 0, id, 0)
                        EXCEPT !.flag = suspicious]
    IN  /\ inflight[h].pc = "idle"
        /\ IF ORDER[users[actor].role] < ORDER["manager"] THEN Answer(h, r(403))
           ELSE IF id \notin TxIds THEN Answer(h, r(404))
           ELSE LET t == TxById(id)
                IN  IF SameFlag(t.suspicious, suspicious)
                    THEN Answer(h, [r(200) EXCEPT !.user = t.userId,
                                                  !.amount = t.amount])
                    ELSE Suspend(h, [Idle EXCEPT !.pc = "toggle", !.actor = actor,
                                                 !.tx = id, !.user = t.userId,
                                                 !.amount = t.amount,
                                                 !.flag = suspicious])
        /\ UNCHANGED <<users, txs, nextTxId, promos, usage, txPromos, events, now>>

\* ... the prisma.$transaction (update of the flag, increment of the
\* balance by delta) and the response
ToggleCommit(h) ==
    LET st == inflight[h]
        t == TxById(st.tx)
    IN  /\ st.pc = "toggle"
        /\ InDrift(users[st.user].points + ToggleDelta(st.flag, st.amount))
        /\ txs' = (txs \ {t}) \cup {[t EXCEPT !.suspicious = Some(st.flag)]}
        /\ users' = Credit(users, st.user, ToggleDelta(st.flag, st.amount))
        /\ Answer(h, [Resp("suspicious", 200, st.actor, st.user, st.tx, st.amount)
                        EXCEPT !.flag = st.flag])
        /\ UNCHANGED <<nextTxId, promos, usage, txPromos, events, now>>

----------------------------------------------------------------------------
(* the clock *)

Tick ==
    /\ now < MaxTime
    /\ now' = now + 1
    /\ res' = NoRes
    /\ UNCHANGED <<users, txs, nextTxId, promos, usage, txPromos, events, inflight>>

----------------------------------------------------------------------------
(* Ledger specification: adjustments, transfers, redemptions               *)

AdjustAmounts == {200, -3}

TransferAmounts == {1, 60, 201}

RedeemAmounts == {-2, 101, 200}

NextLedger ==
    \/ \E u \in {1, 2}, a \in AdjustAmounts : Adjustment(3, u, a, Null, FALSE)
    \/ \E q \in {<<1, 1, Null>>, <<3, 1, Some(1)>>, <<3, UnknownUser, Null>>} :
           Adjustment(q[1], q[2], 200, q[3], FALSE)
    \/ \E s \in {1, 2}, t \in {1, 2, UnknownUser}, a \in TransferAmounts \cup {0} :
           Transfer(s, t, a)
    \/ \E u \in {1, 2}, a \in RedeemAmounts : RedemptionRequest(u, a)
    \/ \E a \in {60, 61} : TransferPageSubmit(1, 2, a)
    \/ \E actor \in {1, 2}, id \in 1 .. MaxTx : ProcessRedemption(actor, id)

SpecLedger == Init /\ [][NextLedger]_vars

----------------------------------------------------------------------------
(* Purchase specification: purchases and adjustments while time passes     *)

NextPurchase ==
    \/ \E ids \in {<<>>, <<2>>, <<3>>, <<1>>, <<2, 2>>, <<2, 3>>, <<2, UnknownPromo>>} :
           Purchase(2, 1, 10000, ids, FALSE)
    \/ \E ids \in {<<>>, <<2>>} : Purchase(2, 1, 4000, ids, FALSE)
    \/ Purchase(2, 1, 4013, <<>>, TRUE)
    \/ \E q \in {<<1, 1, 4000>>, <<2, UnknownUser, 4000>>, <<2, 1, -1>>} :
           Purchase(q[1], q[2], q[3], <<>>, FALSE)
    \/ \E f \in BOOLEAN : Adjustment(3, 1, -3, Null, f)
    \/ \E q \in {<<2, 1>>, <<3, UnknownUser>>} :
           Adjustment(q[1], q[2], 200, Null, FALSE)
    \/ Tick

SpecPurchase == Init /\ [][NextPurchase]_vars

----------------------------------------------------------------------------
(* Event specification: one event's budget under awards and PATCH          *)

AwardAmounts == {15, 20, 30}

NextEvent ==
    \/ \E q \in {<<3, 20>>, <<2, 20>>, <<3, 0>>} :
           CreateEvent(q[1], 1, 2, Null, q[2])
    \/ \E t \in {5, 30} : PatchEvent(3, 1, [NoPatch EXCEPT !.points = Some(t)])
    \/ \E b \in {NoPatch, [NoPatch EXCEPT !.published = Some(TRUE)],
                  [NoPatch EXCEPT !.published = Some(FALSE)]} :
           PatchEvent(3, 1, b)
    \/ PatchEvent(2, 1, [NoPatch EXCEPT !.points = Some(30)])
    \/ AddOrganizer(3, 1, 2)
    \/ \E u \in {1, 3} : AddGuest(3, 1, u)
    \/ \E actor \in {2, 3}, u \in {Null, Some(1)}, a \in AwardAmounts :
           AwardEvent(actor, 1, u, a)
    \/ \E u \in {Some(2), Some(UnknownUser)} : AwardEvent(3, 1, u, 20)
    \/ \E actor \in {2, 3} : DeleteEvent(actor, 1)

SpecEvent == Init /\ [][NextEvent]_vars

----------------------------------------------------------------------------
(* Ended-event specification: an event whose end time passes               *)

NextEnded ==
    \/ CreateEvent(3, -1, 0, Null, 20)
    \/ AddOrganizer(3, 1, 2)
    \/ \E u \in {1, 3} : AddGuest(3, 1, u)
    \/ \E actor \in {1, 2, 3}, u \in {Null, Some(1)} : AwardEvent(actor, 1, u, 20)
    \/ Tick

SpecEnded == Init /\ [][NextEnded]_vars

----------------------------------------------------------------------------
(* Suspicious-flag specification: flagged and unflagged rows, toggled       *)

NextSuspicious ==
    \/ Adjustment(3, 1, 200, Null, FALSE)
    \/ Transfer(1, 3, 60)
    \/ RedemptionRequest(1, 100)
    \/ \E id \in 1 .. MaxTx : ProcessRedemption(3, id)
    \/ \E id \in 1 .. MaxTx + 1, f \in BOOLEAN : SetSuspicious(3, id, f)
    \/ SetSuspicious(2, 1, TRUE)

SpecSuspicious == Init /\ [][NextSuspicious]_vars

----------------------------------------------------------------------------
(* Race specification: two handler slots serving transfers of user 1 and   *)
(* purchases for user 1 that select promotion 2                            *)

NextRace ==
    \/ Adjustment(3, 1, 200, Null, FALSE)
    \/ \E h \in Handlers, q \in {<<2, 120>>, <<1, 120>>, <<UnknownUser, 120>>} :
           TransferBegin(h, 1, q[1], q[2])
    \/ \E h \in Handlers : TransferCheck(h)
    \/ \E h \in Handlers : TransferCommit(h)
    \/ \E h \in Handlers, ids \in {<<2>>, <<2, 2>>} :
           PurchaseBegin(h, 2, 1, 10000, ids, FALSE)
    \/ \E h \in Handlers : PurchaseCommit(h)

SpecRace == Init /\ [][NextRace]_vars

----------------------------------------------------------------------------
(* Awards and changes of the points total of one event, interleaved        *)

NextAwardRace ==
    \/ CreateEvent(3, 1, 2, Null, 20)
    \/ \E u \in {1, 2} : AddGuest(3, 1, u)
    \/ \E h \in Handlers, u \in {Null, Some(1)} : AwardBegin(h, 3, 1, u, 20)
    \/ \E h \in Handlers : AwardCommit(h)
    \/ \E h \in Handlers : PatchPointsBegin(h, 3, 1, 30)
    \/ \E h \in Handlers : PatchPointsCommit(h)

SpecAwardRace == Init /\ [][NextAwardRace]_vars

----------------------------------------------------------------------------
(* Processing requests for the redemptions of user 1, interleaved          *)

NextProcessRace ==
    \/ Adjustment(3, 1, 200, Null, FALSE)
    \/ RedemptionRequest(1, 120)
    \/ \E h \in Handlers, q \in {<<2, 1>>, <<2, 2>>, <<2, 3>>, <<1, 2>>} :
           ProcessBegin(h, q[1], q[2])
    \/ \E h \in Handlers : ProcessCheck(h)
    \/ \E h \in Handlers : ProcessCommit(h)

SpecProcessRace == Init /\ [][NextProcessRace]_vars

----------------------------------------------------------------------------
(* Requests setting the suspicious flag of a transaction, interleaved      *)

NextToggleRace ==
    \/ Adjustment(3, 1, 200, Null, FALSE)
    \/ \E h \in Handlers, q \in {<<3, 1>>, <<3, MaxTx + 1>>, <<2, 1>>}, f \in BOOLEAN :
           ToggleBegin(h, q[1], q[2], f)
    \/ \E h \in Handlers : ToggleCommit(h)

SpecToggleRace == Init /\ [][NextToggleRace]_vars

----------------------------------------------------------------------------
(* The guest list of one event and its capacity                            *)

NextCapacity ==
    \/ \E c \in {Null, Some(1), Some(2), Some(0)} : CreateEvent(3, 1, 2, c, 20)
    \/ \E c \in {1, 2} : PatchEvent(3, 1, [NoPatch EXCEPT !.capacity = Some(c)])
    \/ PatchEvent(3, 1, [NoPatch EXCEPT !.published = Some(TRUE)])
    \/ AddOrganizer(3, 1, 2)
    \/ \E q \in {<<3, 1>>, <<3, 2>>, <<2, 3>>, <<1, 3>>} : AddGuest(q[1], 1, q[2])
    \/ \E u \in {1, 2, 3} : RsvpSelf(u, 1)
    \/ \E u \in {1, 3} : CancelRsvp(u, 1)
    \/ \E q \in {<<3, 1>>, <<3, 2>>, <<2, 1>>} : RemoveGuest(q[1], 1, q[2])
    \/ Tick

SpecCapacity == Init /\ [][NextCapacity]_vars

----------------------------------------------------------------------------
(* User specification: accounts and credentials next to one adjustment     *)

NextUsers ==
    \/ \E q \in {<<2, 4>>, <<2, 1>>, <<1, 4>>} : CreateUser(q[1], q[2])
    \/ \E q \in {<<1, 1>>, <<1, 2>>, <<4, 1>>} : Login(q[1], q[2])
    \/ \E u \in {1, 4} : RequestReset(u)
    \/ \E q \in {<<4, 4, 2>>, <<1, 4, 2>>} : CompleteReset(q[1], q[2], q[3])
    \/ \E n \in {Null, Some(2)} : UpdateSelf(1, [name |-> n])
    \/ \E b \in {[NoUserPatch EXCEPT !.points = Some(50)],
                  [NoUserPatch EXCEPT !.verified = Some(TRUE), !.points = Some(50)],
                  [NoUserPatch EXCEPT !.role = Some("cashier")],
                  [NoUserPatch EXCEPT !.suspicious = Some(TRUE)]} :
           UpdateUser(3, 1, b)
    \/ ChangePassword(1, 1, 2)
    \/ Adjustment(3, 1, 200, Null, FALSE)

SpecUsers == Init /\ [][NextUsers]_vars

----------------------------------------------------------------------------
(* Promotion specification: promotions patched and deleted as time passes  *)

PromoPatches ==
    {NoPromoPatch,
     [NoPromoPatch EXCEPT !.type = Some("automatic")],
     [NoPromoPatch EXCEPT !.startTime = Some(2)],
     [NoPromoPatch EXCEPT !.name = Some(2), !.type = Some("automatic"),
                          !.startTime = Some(2)],
     [NoPromoPatch EXCEPT !.endTime = Some(3), !.points = Some(7)]}

NextPromo ==
    \/ \E id \in PromoIds, b \in PromoPatches : PatchPromotion(3, id, b)
    \/ PatchPromotion(2, 1, [NoPromoPatch EXCEPT !.name = Some(2)])
    \/ \E id \in PromoIds \cup {UnknownPromo} : DeletePromotion(3, id)
    \/ Purchase(2, 1, 10000, <<3>>, FALSE)
    \/ Tick

SpecPromo == Init /\ [][NextPromo]_vars

----------------------------------------------------------------------------
(* Claims on the ledger specification                                      *)

RECURSIVE SumPoints(_, _)
SumPoints(us, S) ==
    IF S = {} THEN 0
    ELSE LET u == CHOOSE x \in S : TRUE
         IN  us[u].points + SumPoints(us, S \ {u})

TransferDone == res'.op = "transfer" /\ res'.status = 201

ProcessDone == res'.op = "processed" /\ res'.status = 200

\* C1: with handlers run one at a time, a transfer succeeds only if the
\* sender's balance is at least the truncated amount and a redemption
\* processing only if the owner's balance is at least the redemption amount,
\* so neither leaves the debited user's balance below zero.
C1_NoOverdraft ==
    [][ /\ TransferDone =>
              /\ users[res'.actor].points >= Trunc(res'.amount)
              /\ users'[res'.actor].points >= 0
        /\ ProcessDone =>
              /\ users[res'.user].points >= res'.amount
              /\ users'[res'.user].points >= 0 ]_vars

\* a transfer of 100.5 by a sender who holds exactly 100 points has succeeded
C1_Witness ==
    /\ res.op = "transfer" /\ res.status = 201 /\ res.amount = 201
    /\ users[res.actor].points = 0

\* C2: a successful transfer of n points creates exactly two transfer rows,
\* (sender, -n, relatedId = recipient) and (recipient, +n, relatedId = sender),
\* debits the sender by n and credits the recipient by n; no other balance
\* changes and the sum of all balances is unchanged.
C2_TransferPair ==
    [][ TransferDone =>
          LET n == Trunc(res'.amount)
              s == res'.actor
              r == res'.user
              created == txs' \ txs
          IN  /\ txs \subseteq txs'
              /\ Cardinality(created) = 2
              /\ \A t \in created : t.type = "transfer"
              /\ \E a, b \in created :
                    /\ a.userId = s /\ a.amount = -n /\ a.relatedId = Some(r)
                    /\ b.userId = r /\ b.amount = n /\ b.relatedId = Some(s)
              /\ users'[s].points = users[s].points - n
              /\ users'[r].points = users[r].points + n
              /\ \A u \in Users \ {s, r} : users'[u] = users[u]
              /\ SumPoints(users', Users) = SumPoints(users, Users) ]_vars

\* a transfer of 30 from user 1 (balance 100) to user 2 (balance 0) has succeeded
C2_Witness ==
    /\ res.op = "transfer" /\ res.status = 201 /\ res.amount = 60
    /\ res.actor = 1 /\ res.user = 2
    /\ users[1].points = 70 /\ users[2].points = 30

----------------------------------------------------------------------------
(* Claims on the purchase specification                                    *)

PurchaseDone == res'.op = "purchase" /\ res'.status = 201

AdjustmentDone == res'.op = "adjustment" /\ res'.status = 201

\* the row a successful request has just created
Created == CHOOSE t \in txs' : t.id = res'.tx

\* a purchase for user u with one-time promotion p selected has succeeded
UsedBefore(u, p) ==
    /\ p \in DOMAIN promos
    /\ promos[p].type = "onetime"
    /\ \E t \in txs : t.type = "purchase" /\ t.userId = u /\ <<t.id, p>> \in txPromos

UsageUnique ==
    \A i, j \in 1 .. Len(usage) :
        usage[i].userId = usage[j].userId /\ usage[i].promotionId = usage[j].promotionId
            => i = j

\* C4: once a purchase for user U has succeeded with one-time promotion P
\* selected, every later purchase for U that lists P is rejected (400 for an
\* actor allowed to create purchases) and changes no row, and there is at most
\* one UserPromotionUsage row per (U, P).
C4_OneTimeOnce ==
    [][ /\ (res'.op = "purchase" /\
             \E i \in 1 .. Len(res'.pids) : UsedBefore(res'.user, res'.pids[i]))
            => /\ res'.status =
                     (IF ORDER[users[res'.actor].role] < ORDER["cashier"]
                      THEN 403 ELSE 400)
               /\ UNCHANGED db
        /\ UsageUnique' ]_vars

\* a second purchase for user 1 that selects the used promotion 2 was rejected
C4_Witness ==
    /\ res.op = "purchase" /\ res.status = 400 /\ res.user = 1
    /\ res.pids = <<2>>
    /\ UsedBefore(1, 2)
    /\ Len(usage) = 1

\* the promotions that apply to a purchase of s with the ids sel selected:
\* active automatic ones and selected one-time ones, minSpending unset or <= s
Applicable(s, sel) ==
    {id \in DOMAIN promos :
        /\ \/ (promos[id].type = "automatic" /\ isActivePromo(promos[id]))
           \/ (promos[id].type = "onetime" /\ id \in sel)
        /\ (promos[id].minSpending = Null \/ Val(promos[id].minSpending) <= s)}

RECURSIVE StatedBonus(_, _)
StatedBonus(S, s) ==
    IF S = {} THEN 0
    ELSE LET id == CHOOSE x \in S : TRUE
             byRate == IF promos[id].rate = Null THEN 0
                       ELSE (2 * s * Val(promos[id].rate) + 100) \div 200
             flat == IF promos[id].points = Null THEN 0 ELSE Val(promos[id].points)
         IN  byRate + flat + StatedBonus(S \ {id}, s)

\* round(s / 0.25) + the bonus of every applicable promotion
StatedEarned(s, sel) ==
    (2 * s + 25) \div 50 + StatedBonus(Applicable(s, sel), s)

\* C8 as stated: a successful purchase records round(s / 0.25) plus the bonus
\* of every applicable promotion; with no applicable promotion it records
\* round(s / 0.25) and the target's balance increases by exactly that amount.
C8_Original ==
    [][ PurchaseDone =>
          LET s == res'.amount
              sel == SeqRange(res'.pids)
          IN  /\ Created.amount = StatedEarned(s, sel)
              /\ Applicable(s, sel) = {} =>
                    /\ Created.amount = (2 * s + 25) \div 50
                    /\ users'[res'.user].points =
                          users[res'.user].points + Created.amount ]_vars

\* C8 amended: the same, the balance increasing by that amount when the
\* purchase is not recorded as suspicious.
C8_Earned ==
    [][ PurchaseDone =>
          LET s == res'.amount
              sel == SeqRange(res'.pids)
          IN  /\ Created.amount = StatedEarned(s, sel)
              /\ Applicable(s, sel) = {} =>
                    /\ Created.amount = (2 * s + 25) \div 50
                    /\ Created.suspicious = Some(FALSE) =>
                          users'[res'.user].points =
                              users[res'.user].points + Created.amount ]_vars

\* a purchase of 40.00 with no applicable promotion earned 160, all credited
C8_Witness ==
    /\ res.op = "purchase" /\ res.status = 201 /\ res.amount = 4000
    /\ Applicable(4000, SeqRange(res.pids)) = {}
    /\ TxById(res.tx).amount = 160
    /\ users[res.user].points = 160

\* the case of C9: spend 100.00, nothing selected, and exactly one promotion
\* applies, an active automatic one with rate 0.05, no minSpending, no points
C9_Case ==
    /\ res.op = "purchase" /\ res.status = 201
    /\ res.amount = 10000 /\ res.pids = <<>>
    /\ \E id \in DOMAIN promos :
          /\ Applicable(10000, {}) = {id}
          /\ promos[id].type = "automatic" /\ promos[id].rate = Some(5)
          /\ promos[id].minSpending = Null /\ promos[id].points = Null

\* C9 as stated: that purchase earns 420 points (base 400 plus bonus 20).
C9_Original == C9_Case => TxById(res.tx).amount = 420

\* C9 amended: that purchase earns 900 points, base 400 plus the bonus
\* round(100.00 * 100 * 0.05) = 500.
C9_Earns900 == C9_Case => TxById(res.tx).amount = 900

C9_Witness == C9_Case /\ TxById(res.tx).amount = 400 + 500

\* C10: a successful purchase or adjustment records the same amount whether
\* or not it is suspicious (earned points, or the truncated signed amount); it
\* is recorded as suspicious exactly when the request says so or the creating
\* actor is flagged suspicious; the target's balance changes by the amount
\* when it is not suspicious and not at all when it is.
C10_CreditUnlessSuspicious ==
    [][ (PurchaseDone \/ AdjustmentDone) =>
          LET u == res'.user
              susp == res'.flag \/ users[res'.actor].suspicious
              amount == IF res'.op = "purchase"
                        THEN StatedEarned(res'.amount, SeqRange(res'.pids))
                        ELSE IF res'.amount >= 0 THEN res'.amount \div 2
                             ELSE -((-res'.amount) \div 2)
          IN  /\ Created.amount = amount
              /\ Created.suspicious = Some(susp)
              /\ users'[u].points = users[u].points + (IF susp THEN 0 ELSE amount)
              /\ \A v \in Users \ {u} : users'[v] = users[v] ]_vars

\* a purchase made by a flagged cashier, not flagged in the request, was
\* recorded with its earned points and left the balance alone
C10_Witness ==
    /\ res.op = "purchase" /\ res.status = 201 /\ ~res.flag
    /\ users[res.actor].suspicious
    /\ TxById(res.tx).suspicious = Some(TRUE)
    /\ TxById(res.tx).amount > 0
    /\ users[res.user].points = 0

----------------------------------------------------------------------------
(* Claims on the event specification                                       *)

BudgetKept(e) ==
    /\ e.pointsRemain + e.pointsAwarded = e.pointsTotal
    /\ e.pointsRemain >= 0

\* a well-formed award request from a manager or organizer to RSVPed guests
AwardAsked ==
    /\ res'.op = "award"
    /\ LiveEvent(res'.event)
    /\ isManager(res'.actor) \/ isOrganizer(res'.actor, res'.event)
    /\ res'.amount % 2 = 0 /\ res'.amount > 0
    /\ res'.user = 0 \/ res'.user \in events[res'.event].guests

AskedTotal ==
    (res'.amount \div 2) *
        (IF res'.user = 0 THEN Cardinality(events[res'.event].guests) ELSE 1)

\* C3: after every operation each event has pointsRemain + pointsAwarded =
\* pointsTotal and pointsRemain >= 0, and an award asking for more than
\* pointsRemain is answered 400 and changes no stored row.
C3_Budget ==
    [][/\ \A id \in 1 .. Len(events') : BudgetKept(events'[id])
       /\ (AwardAsked /\ AskedTotal > events[res'.event].pointsRemain)
              => (res'.status = 400 /\ UNCHANGED db)]_vars

\* an award was refused for lack of budget after an earlier award and a
\* change of pointsTotal had been applied
C3_Witness ==
    /\ res.op = "award" /\ res.status = 400
    /\ LiveEvent(res.event)
    /\ res.user \in events[res.event].guests
    /\ events[res.event].pointsAwarded > 0
    /\ events[res.event].pointsTotal # 20
    /\ res.amount \div 2 > events[res.event].pointsRemain

----------------------------------------------------------------------------
(* Claims on the suspicious-flag specification                             *)

ToggleDone(flag) ==
    /\ res'.op = "suspicious" /\ res'.status = 200 /\ res'.flag = flag

\* the un-mark of a mark/un-mark pair on one transaction has just been served
PairDone ==
    /\ res.op = "suspicious" /\ res.status = 200 /\ ~res.flag
    /\ res.pre # Null

SameBalances(us) == \A u \in Users : users[u].points = us[u].points

\* C5 as stated: marking any stored transaction suspicious and then
\* un-marking it leaves every balance as it was before the pair.
C5_Original == PairDone => SameBalances(Val(res.pre).users)

\* C5: marking a stored transaction that is not marked suspicious and then
\* un-marking it leaves every balance as it was before the pair.
C5_PairNetsZero ==
    (PairDone /\ Val(res.pre).was # Some(TRUE))
        => SameBalances(Val(res.pre).users)

\* a pair has been served on a transaction of non-zero amount that was not
\* marked before it
C5_Witness ==
    /\ PairDone
    /\ Val(res.pre).was # Some(TRUE)
    /\ res.amount # 0
    /\ TxById(res.tx).suspicious = Some(FALSE)

\* what the transaction did to its owner's balance when it took effect
EffectOf(t) ==
    IF t.type = "redemption"
    THEN IF t.processedById = Null THEN 0 ELSE -t.amount
    ELSE t.amount

\* C6: marking a transaction suspicious takes its earlier effect out of the
\* owner's balance, and un-marking a marked transaction puts it back.
C6_RemovesEffect ==
    [][/\ (ToggleDone(TRUE) /\ TxById(res'.tx).suspicious # Some(TRUE))
              => users'[res'.user].points =
                     users[res'.user].points - EffectOf(TxById(res'.tx))
       /\ (ToggleDone(FALSE) /\ TxById(res'.tx).suspicious = Some(TRUE))
              => users'[res'.user].points =
                     users[res'.user].points + EffectOf(TxById(res'.tx))]_vars

\* C7: a request that sets suspicious to false on a transaction that is not
\* marked suspicious changes no balance.
C7_NoOpWhenClear ==
    [][(ToggleDone(FALSE) /\ TxById(res'.tx).suspicious # Some(TRUE))
           => \A u \in Users : users'[u].points = users[u].points]_vars

----------------------------------------------------------------------------
(* Claims on rejected purchases                                            *)

\* pid is not an active one-time promotion, or user u has used it
BadPid(u, pid) ==
    \/ pid \notin DOMAIN promos
    \/ promos[pid].type # "onetime"
    \/ promos[pid].startTime > now \/ promos[pid].endTime < now
    \/ UsedBefore(u, pid)

\* a purchase request that passes the checks made before the promotion ids
PurchaseAsked ==
    /\ res'.op = "purchase"
    /\ ORDER[users[res'.actor].role] >= ORDER["cashier"]
    /\ res'.amount >= 0
    /\ res'.user \in Users

\* C11: a purchase whose promotionIds holds an id that is unknown, automatic,
\* outside its validity window or already used by the target user is refused
\* with 400 and changes no row, whatever the other listed ids are.
C11_BadIdRejectsAll ==
    [][(PurchaseAsked /\
        \E i \in 1 .. Len(res'.pids) : BadPid(res'.user, res'.pids[i]))
           => (res'.status = 400 /\ UNCHANGED db)]_vars

\* a purchase listing the valid unused promotion 2 next to a promotion that
\* is not yet active was refused
C11_Witness ==
    /\ res.op = "purchase" /\ res.status = 400
    /\ res.pids = <<2, 3>>
    /\ ~BadPid(res.user, 2)
    /\ promos[3].startTime > now

----------------------------------------------------------------------------
(* Claims on redemptions                                                   *)

RedemptionAsked == res'.op = "redemption"

\* the redemption rows of user u that no cashier has processed
Pending(u) ==
    {t \in txs : t.type = "redemption" /\ t.userId = u /\ t.processedById = Null}

\* C12: a redemption request by a verified user for a positive amount whose
\* truncation is at most the user's current balance returns 201, whatever
\* redemptions are pending, and a successful request adds exactly one
\* redemption row with processedById NULL and changes no balance.
C12_RequestOnly ==
    [][RedemptionAsked =>
          /\ (res'.amount > 0 /\ users[res'.actor].verified
               /\ Trunc(res'.amount) <= users[res'.actor].points)
                 => res'.status = 201
          /\ res'.status = 201 =>
                 /\ txs \subseteq txs'
                 /\ txs' \ txs =
                        {NewTx(res'.tx, res'.actor, "redemption", Trunc(res'.amount),
                               Null, Null, Null, res'.actor, Null)}
                 /\ users' = users
          /\ res'.status # 201 => UNCHANGED db]_vars

\* a request was accepted while the user's pending redemptions already
\* amounted to the whole balance
C12_Witness ==
    /\ res.op = "redemption" /\ res.status = 201
    /\ users[res.actor].points > 0
    /\ \E t \in Pending(res.actor) :
           t.id # res.tx /\ t.amount = users[res.actor].points

ProcessAsked == res'.op = "processed" /\ ORDER[users[res'.actor].role] >= ORDER["cashier"]

\* C13: for an actor of role cashier or higher, processing returns 404 for a
\* missing transaction, 400 for one that is not a redemption, is already
\* processed or exceeds its owner's balance, and 200 otherwise; a success
\* debits the owner by exactly the amount and sets processedById to the
\* actor, a failure changes no row, and a processedById once set is never
\* cleared or replaced, so no redemption is debited twice.
C13_ProcessOnce ==
    [][/\ ProcessAsked =>
             IF res'.tx \notin TxIds THEN res'.status = 404 /\ UNCHANGED db
             ELSE LET t == TxById(res'.tx)
                  IN  IF t.type # "redemption" \/ t.processedById # Null
                         \/ users[t.userId].points < t.amount
                      THEN res'.status = 400 /\ UNCHANGED db
                      ELSE /\ res'.status = 200
                           /\ users' = [users EXCEPT ![t.userId].points = @ - t.amount]
                           /\ txs' = (txs \ {t}) \cup
                                  {[t EXCEPT !.processedById = Some(res'.actor)]}
       /\ \A t \in txs : t.processedById # Null =>
             \E t2 \in txs' : t2.id = t.id /\ t2.processedById = t.processedById]_vars

\* processing was refused because the owner's balance had fallen below the
\* amount of the pending redemption
C13_Witness ==
    /\ res.op = "processed" /\ res.status = 400
    /\ res.tx \in TxIds
    /\ TxById(res.tx).type = "redemption"
    /\ TxById(res.tx).processedById = Null
    /\ users[TxById(res.tx).userId].points < TxById(res.tx).amount

----------------------------------------------------------------------------
(* Claims on the race specification                                        *)

\* C14: when transfer handlers of one sender interleave at their store
\* calls, no balance goes below zero (the race specification has no other
\* debit than transfers).
C14_NoRaceOverdraft == \A u \in Users : users[u].points >= 0

\* the purchases recorded for user u with promotion p attached
PurchasesWith(u, p) ==
    {t \in txs : t.type = "purchase" /\ t.userId = u /\ <<t.id, p>> \in txPromos}

\* C15: when purchase handlers for one user interleave at their store calls,
\* a one-time promotion is attached to, and its bonus credited by, at most
\* one successful purchase of that user.
C15_RaceConsumesOnce ==
    \A u \in Users, p \in DOMAIN promos :
        promos[p].type = "onetime" => Cardinality(PurchasesWith(u, p)) <= 1

----------------------------------------------------------------------------
(* Claims on event awards                                                  *)

\* C16: a well-formed award by a manager or organizer on an event whose end
\* time has passed is answered 410 and changes no row.
C16_EndedAwardGone ==
    [][(AwardAsked /\ events[res'.event].endTime < now)
           => (res'.status = 410 /\ UNCHANGED db)]_vars

\* the rows an all-guests award of a points on event id creates, ids aside
AwardRows(id, a) ==
    {[userId |-> g, type |-> "event", amount |-> a, relatedId |-> Some(id)] :
        g \in events[id].guests}

\* C17: an all-guests award of a points by a manager or organizer on an
\* event with n guests succeeds exactly when pointsRemain >= n * a; it then
\* creates one event row of amount a per guest, credits each guest a, moves
\* n * a from pointsRemain to pointsAwarded, and otherwise changes no row.
C17_AwardAll ==
    [][(AwardAsked /\ res'.user = 0) =>
          LET id == res'.event
              e == events[id]
              a == res'.amount \div 2
              n == Cardinality(e.guests)
              created == txs' \ txs
          IN  IF e.pointsRemain >= n * a
              THEN /\ res'.status = 200
                   /\ txs \subseteq txs'
                   /\ Cardinality(created) = n
                   /\ {[userId |-> t.userId, type |-> t.type, amount |-> t.amount,
                         relatedId |-> t.relatedId] : t \in created} = AwardRows(id, a)
                   /\ \A u \in Users :
                         users'[u].points =
                             users[u].points + (IF u \in e.guests THEN a ELSE 0)
                   /\ events'[id] = [e EXCEPT !.pointsRemain = @ - n * a,
                                              !.pointsAwarded = @ + n * a]
              ELSE res'.status = 400 /\ UNCHANGED db]_vars

\* an award to both guests of an event has used up exactly what remained
C17_Witness ==
    /\ res.op = "award" /\ res.status = 200 /\ res.user = 0
    /\ LiveEvent(res.event)
    /\ Cardinality(events[res.event].guests) = 2
    /\ events[res.event].pointsRemain = 0
    /\ Cardinality({t \in txs : t.type = "event" /\ t.amount = res.amount \div 2}) = 2

----------------------------------------------------------------------------
(* Claims on refused requests                                              *)

TransferAsked == res'.op = "transfer" /\ res'.amount > 0

\* the status a refused transfer gets when an unverified sender is answered
\* with unverifiedStatus; 0 when no check refuses the transfer
TransferRefusal(unverifiedStatus) ==
    IF res'.user = res'.actor THEN 400
    ELSE IF res'.user \notin Users THEN 404
    ELSE IF ~users[res'.actor].verified THEN unverifiedStatus
    ELSE IF users[res'.actor].points < Trunc(res'.amount) THEN 400
    ELSE 0

\* C18 as stated: a transfer to oneself, by an unverified sender or beyond
\* the sender's balance is answered 400, one to an unknown recipient 404,
\* and none of them changes a row.
C18_Original ==
    [][(TransferAsked /\ TransferRefusal(400) # 0)
           => (res'.status = TransferRefusal(400) /\ UNCHANGED db)]_vars

\* C18: a transfer to oneself is answered 400, otherwise one to an unknown
\* recipient 404, otherwise one by an unverified sender 403, otherwise one
\* beyond the sender's balance 400, and none of them changes a row.
C18_TransferRefused ==
    [][(TransferAsked /\ TransferRefusal(403) # 0)
           => (res'.status = TransferRefusal(403) /\ UNCHANGED db)]_vars

\* a transfer by an unverified sender to an existing other user was refused
C18_Witness ==
    /\ res.op = "transfer" /\ res.status = 403 /\ res.amount > 0
    /\ res.user \in Users \ {res.actor}
    /\ ~users[res.actor].verified

\* C19: a purchase that lists one valid, unused one-time promotion twice
\* does not succeed and leaves no transaction, association, usage row or
\* balance change behind.
C19_NoPartialState ==
    [][(PurchaseAsked
        /\ (\A i \in 1 .. Len(res'.pids) : ~BadPid(res'.user, res'.pids[i]))
        /\ (\E i, j \in 1 .. Len(res'.pids) : i # j /\ res'.pids[i] = res'.pids[j]))
           => (res'.status # 201 /\ UNCHANGED db)]_vars

\* a purchase listing the unused promotion 2 twice has failed
C19_Witness ==
    /\ res.op = "purchase" /\ res.status = 500
    /\ res.pids = <<2, 2>>
    /\ ~BadPid(res.user, 2)
    /\ txs = {} /\ usage = <<>>

\* C20: a stored transaction is never deleted and its owner, type, amount
\* and relatedId never change.
C20_AuditRecord ==
    [][\A t \in txs :
          \E t2 \in txs' :
              /\ t2.id = t.id /\ t2.userId = t.userId /\ t2.type = t.type
              /\ t2.amount = t.amount /\ t2.relatedId = t.relatedId]_vars

----------------------------------------------------------------------------
(* Claims on user resources                                                *)

UserOps ==
    {"login", "requestReset", "completeReset", "createUser", "updateSelf",
     "updateUser", "changePassword"}

LedgerOps == {"purchase", "adjustment", "transfer", "processed", "award", "suspicious"}

\* C21: no authentication or user-resource request changes a balance, a
\* created user starts with balance 0, and a balance changes only in a
\* purchase, adjustment, transfer, redemption processing, event award or
\* suspicious toggle.
C21_BalanceFrame ==
    [][/\ res'.op \in UserOps =>
             /\ \A u \in Users : u \in DOMAIN users' /\ users'[u].points = users[u].points
             /\ \A u \in DOMAIN users' \ Users : users'[u].points = 0
       /\ (\E u \in Users : users'[u].points # users[u].points)
             => res'.op \in LedgerOps]_vars

\* a manager's update of user 1 that carried points: 50 in its body was
\* applied while user 1 held 100 points, and a user has been created
C21_Witness ==
    /\ res.op = "updateUser" /\ res.status = 200 /\ res.pre = Some(50)
    /\ users[1].verified
    /\ users[1].points = 100
    /\ 4 \in Users

----------------------------------------------------------------------------
(* Claims on the life of events                                            *)

\* C22: a published event stays published and is never deleted; a
\* manager's PATCH that sets published to false and a manager's DELETE of a
\* published event are answered 400 and change no row.
C22_PublishedStays ==
    [][/\ \A id \in 1 .. Len(events) :
             (LiveEvent(id) /\ events[id].published)
                 => (~events'[id].deleted /\ events'[id].published)
       /\ (res'.op = "patchEvent" /\ isManager(res'.actor) /\ LiveEvent(res'.event)
           /\ Val(res'.pre).published = Some(FALSE))
             => (res'.status = 400 /\ UNCHANGED db)
       /\ (res'.op = "deleteEvent" /\ isManager(res'.actor) /\ LiveEvent(res'.event)
           /\ events[res'.event].published)
             => (res'.status = 400 /\ UNCHANGED db)]_vars

\* the deletion of a published event with a guest and an award was refused
C22_Witness ==
    /\ res.op = "deleteEvent" /\ res.status = 400
    /\ LiveEvent(res.event)
    /\ events[res.event].published
    /\ events[res.event].guests # {}
    /\ \E t \in txs : t.type = "event" /\ t.relatedId = Some(res.event)

----------------------------------------------------------------------------
(* Claims on the life of promotions                                        *)

\* C23: a promotion whose start time has passed is never deleted and keeps
\* its type and start time, whatever a PATCH carries and whether or not the
\* promotion has ended; a DELETE of it fails and changes no row.
C23_StartedFrozen ==
    [][/\ \A id \in DOMAIN promos :
             promos[id].startTime <= now
                 => /\ id \in DOMAIN promos'
                    /\ promos'[id].type = promos[id].type
                    /\ promos'[id].startTime = promos[id].startTime
       /\ (res'.op = "deletePromotion" /\ res'.tx \in DOMAIN promos
           /\ promos[res'.tx].startTime <= now)
             => (res'.status # 204 /\ UNCHANGED db)]_vars

\* a PATCH carrying a name, a type and a start time was applied to an ended
\* promotion, which kept its type and start time
C23_Witness ==
    /\ res.op = "patchPromotion" /\ res.status = 200
    /\ Val(res.pre).type # Null /\ Val(res.pre).startTime # Null
    /\ promos[res.tx].endTime < now
    /\ promos[res.tx].name = 2
    /\ promos[res.tx].type = PromoTable[res.tx].type
    /\ promos[res.tx].startTime = PromoTable[res.tx].startTime

----------------------------------------------------------------------------
(* Claims on the transfer page                                             *)

\* C24: submitting the transfer page as a verified user, naming another
\* existing user and an amount within the sender's balance, moves that many
\* points from the sender to the recipient.
C24_PageTransfers ==
    [][(res'.op = "myTransaction" /\ res'.pre = Some("transfer")
        /\ users[res'.actor].verified
        /\ res'.user \in Users \ {res'.actor}
        /\ res'.amount > 0
        /\ Trunc(res'.amount) <= users[res'.actor].points)
           => /\ users'[res'.actor].points =
                     users[res'.actor].points - Trunc(res'.amount)
              /\ users'[res'.user].points =
                     users[res'.user].points + Trunc(res'.amount)]_vars

\* C25: when an award on an event is interleaved with another award on the
\* same event or with a manager's change of its points total, the event
\* still has pointsRemain >= 0 and pointsRemain + pointsAwarded = pointsTotal.
C25_RaceBudget ==
    \A id \in 1 .. Len(events) :
        LiveEvent(id) =>
            /\ events[id].pointsRemain >= 0
            /\ events[id].pointsTotal - events[id].pointsAwarded = events[id].pointsRemain

\* C26: when two processing requests for the same pending redemption are
\* interleaved, at most one succeeds and the owner is debited at most once:
\* a request debits the owner only while the redemption is still pending.
C26_ProcessRaceOnce ==
    [][\A h \in Handlers :
           (inflight[h].pc = "process" /\ inflight'[h].pc = "idle")
               => TxById(inflight[h].tx).processedById = Null]_vars

\* C27: when two requests setting the same suspicious value on the same
\* transaction are interleaved, the delta is applied at most once: a request
\* changes the balance only while the stored flag differs from the one sent.
C27_ToggleRaceOnce ==
    [][\A h \in Handlers :
           (inflight[h].pc = "toggle" /\ inflight'[h].pc = "idle")
               => ~SameFlag(TxById(inflight[h].tx).suspicious, inflight[h].flag)]_vars

----------------------------------------------------------------------------
(* Claims on the ledger as a whole                                         *)

\* what a stored row contributes to the balance the rows account for
Counted(t) ==
    IF t.type = "redemption"
    THEN IF t.processedById = Null THEN 0 ELSE -t.amount
    ELSE IF t.suspicious = Some(TRUE) THEN 0 ELSE t.amount

RECURSIVE SumCounted(_)
SumCounted(S) ==
    IF S = {} THEN 0
    ELSE LET t == CHOOSE x \in S : TRUE
         IN  Counted(t) + SumCounted(S \ {t})

\* C28: in every state reached by non-interleaved operations, each user's
\* balance equals the sum of the amounts of the user's stored purchase,
\* adjustment, transfer and event rows not marked suspicious, minus the
\* amounts of the user's processed redemptions.
C28_BalanceIsLedger ==
    \A u \in Users : users[u].points = SumCounted({t \in txs : t.userId = u})

----------------------------------------------------------------------------
(* Claims on the usage of one-time promotions                              *)

\* user u has a usage row with usedAt set for promotion pid after the step
UsedAfter(u, pid) ==
    \E j \in 1 .. Len(usage') :
        /\ usage'[j].userId = u
        /\ usage'[j].promotionId = pid
        /\ usage'[j].usedAt # Null

\* C29: a successful purchase marks every selected one-time promotion used by
\* the target user and associates it with the transaction, also when its
\* minSpending exceeds the spend; a promotion marked used stays marked, and a
\* purchase for that user that selects it creates nothing.
C29_SelectedIsUsed ==
    [][/\ PurchaseDone =>
             \A i \in 1 .. Len(res'.pids) :
                 /\ UsedAfter(res'.user, res'.pids[i])
                 /\ <<res'.tx, res'.pids[i]>> \in txPromos'
       /\ \A u \in Users : \A pid \in UsedSet(u) : UsedAfter(u, pid)
       /\ (res'.op = "purchase" /\ res'.user \in Users
           /\ \E i \in 1 .. Len(res'.pids) : res'.pids[i] \in UsedSet(res'.user))
              => (res'.status # 201 /\ UNCHANGED db)]_vars

\* promotion 2, selected in a purchase whose spend was below its minSpending,
\* was refused in a later purchase for the same user while still active
C29_Witness ==
    /\ res.op = "purchase" /\ res.status = 400 /\ res.pids = <<2>>
    /\ isActivePromo(promos[2])
    /\ 2 \in UsedSet(res.user)
    /\ \E t \in txs :
           /\ t.type = "purchase" /\ t.userId = res.user
           /\ <<t.id, 2>> \in txPromos
           /\ Val(t.spent) < Val(promos[2].minSpending)
           /\ t.amount = Earned(Val(t.spent), {1}, <<>>)

----------------------------------------------------------------------------
(* Claims on the guest list                                                *)

\* a request to add user res'.user as a guest of event res'.event
AddAsked == res'.op \in {"addGuest", "rsvp"} /\ LiveEvent(res'.event)

AtCapacity(e) == e.capacity # Null /\ Cardinality(e.guests) >= Val(e.capacity)

\* the request is refused for no reason that is checked before the capacity
AddInOrder ==
    LET e == events[res'.event]
    IN  /\ IF res'.op = "rsvp" THEN e.published
           ELSE \/ isManager(res'.actor)
                \/ isOrganizer(res'.actor, res'.event) /\ e.published
        /\ res'.user \in Users
        /\ res'.user \notin e.organizers \cup e.guests

\* C30: after every guest addition (by a manager or organizer, or by
\* self-RSVP), guest removal and capacity update, an event with a capacity
\* has at most that many guests; adding a guest to an event whose guest
\* count has reached its capacity adds no guest and, for a request that is
\* otherwise in order, is answered 410.
C30_CapacityKept ==
    [][/\ \A id \in 1 .. Len(events') :
             events'[id].capacity # Null =>
                 Cardinality(events'[id].guests) <= Val(events'[id].capacity)
       /\ (AddAsked /\ AtCapacity(events[res'.event]))
              => /\ res'.status # 201
                 /\ events'[res'.event].guests = events[res'.event].guests
                 /\ AddInOrder => res'.status = 410]_vars

\* a self-RSVP to a published, running event was refused because its two
\* places were taken
C30_Witness ==
    /\ res.op = "rsvp" /\ res.status = 410
    /\ LiveEvent(res.event)
    /\ events[res.event].published
    /\ events[res.event].endTime >= now
    /\ events[res.event].capacity = Some(2)
    /\ Cardinality(events[res.event].guests) = 2
    /\ res.user \notin events[res.event].guests \cup events[res.event].organizers

====
